---------------------------- MODULE Spec2Model ----------------------------
(***************************************************************************)
(* A model of aspensqlplus-fmt: the formatting pipeline format_sql         *)
(* (sqlfmt.rs) and the diagnostics pipeline analyze_variables              *)
(* (diagnostics.rs).                                                       *)
(*                                                                         *)
(* Text is a sequence of characters; a character is a one-element string.  *)
(* The non-ASCII letter U+00E9 is written "U+00E9": the regex crate's \b   *)
(* and \w are Unicode-aware, the classes [a-zA-Z0-9_] are not, and the     *)
(* letter takes two bytes in the UTF-8 offsets the code reports.           *)
(***************************************************************************)
EXTENDS Integers, Sequences, FiniteSets, TLC

VARIABLES
    \* analyze_variables (diagnostics.rs)
    input,          \* the text handed to analyze_variables
    input_lines,    \* `lines`: the lines of the input
    line_idx,       \* number of lines the extraction loop has processed
    variables,      \* HashMap<String, Vec<Variable>>: lowercase name -> declarations
    all_variables,  \* Vec<Variable> in extraction order
    visited,        \* keys of `variables` the duplicate loop has iterated over
    var_idx,        \* number of entries of all_variables the unused loop has processed
    diagnostics,    \* Vec<Diagnostic> under construction
    returned,       \* TRUE once analyze_variables has returned `diagnostics`
    \* format_sql (sqlfmt.rs)
    fpc,            \* position inside format_sql
    src,            \* the text handed to format_sql
    opts,           \* Options: line_width, indent_width, uppercase_keywords
    s,              \* the working copy of the text (after keyword normalisation)
    raw_idx,        \* number of raw lines the per-line loop has processed
    raw_lines,      \* s.lines(): the raw lines of the working copy
    line,           \* the current line of the per-line loop
    norms,          \* history: each line as it left the operator step, before wrapping
    rest,           \* wrap loop: text still to be wrapped
    out,            \* wrap loop: text produced so far
    first,          \* wrap loop: no segment emitted yet
    rules,          \* history: the split rule each iteration of the current wrap loop took
    lines,          \* Vec<String> of normalised and wrapped lines
    ind_idx,        \* number of lines the indentation loop has processed
    level,          \* indentation depth
    levels,         \* history: the values `level` took while each line was indented
    emitted,        \* history: each line as the indentation loop emitted it
    indented,       \* the String the indentation loop builds
    result          \* the returned String

dvars == <<input, input_lines, line_idx, variables, all_variables, visited, var_idx,
           diagnostics, returned>>
fvars == <<fpc, src, opts, s, raw_lines, raw_idx, line, norms, rest, out, first,
           rules, lines, ind_idx, level, levels, emitted, indented, result>>
vars == <<dvars, fvars>>

-----------------------------------------------------------------------------
(* Characters *)

LowerAlpha == <<"a","b","c","d","e","f","g","h","i","j","k","l","m",
                "n","o","p","q","r","s","t","u","v","w","x","y","z">>
UpperAlpha == <<"A","B","C","D","E","F","G","H","I","J","K","L","M",
                "N","O","P","Q","R","S","T","U","V","W","X","Y","Z">>
Digits == {"0","1","2","3","4","5","6","7","8","9"}
EAcute == "U+00E9"

LowerLetters == {LowerAlpha[i] : i \in 1..26}
UpperLetters == {UpperAlpha[i] : i \in 1..26}

IsLower(c) == c \in LowerLetters
IsUpper(c) == c \in UpperLetters

\* [a-zA-Z_] and [a-zA-Z0-9_] of the declaration pattern
IsIdentStart(c) == IsLower(c) \/ IsUpper(c) \/ c = "_"
IsIdentChar(c) == IsIdentStart(c) \/ c \in Digits

\* \w of the regex crate: Unicode word characters
IsWordChar(c) == IsIdentChar(c) \/ c = EAcute

\* \s of the regex crate and char::is_whitespace
IsSpace(c) == c \in {" ", "\t", "\n", "\r"}

\* UTF-8 length of a character
ByteLen(c) == IF c = EAcute THEN 2 ELSE 1

UpperOf == [c \in LowerLetters |-> UpperAlpha[CHOOSE i \in 1..26 : LowerAlpha[i] = c]]
LowerOf == [c \in UpperLetters |-> LowerAlpha[CHOOSE i \in 1..26 : UpperAlpha[i] = c]]

to_ascii_uppercase(c) == IF IsLower(c) THEN UpperOf[c] ELSE c

to_lowercase(c) == IF IsUpper(c) THEN LowerOf[c] ELSE c

Upper(str) == [i \in 1..Len(str) |-> to_ascii_uppercase(str[i])]
Lower(str) == [i \in 1..Len(str) |-> to_lowercase(str[i])]

-----------------------------------------------------------------------------
(* Strings *)

RECURSIVE Flatten(_)
Flatten(ss) == IF ss = << >> THEN << >> ELSE Head(ss) \o Flatten(Tail(ss))

\* str::len and match offsets: bytes, not characters
RECURSIVE ByteLength(_)
ByteLength(str) ==
    IF str = << >> THEN 0 ELSE ByteLen(Head(str)) + ByteLength(Tail(str))

\* byte offset (0-based) of the character at 1-based index p
ByteOffset(str, p) == ByteLength(SubSeq(str, 1, p - 1))

\* str::lines: split at "\n", a final empty piece is dropped, a "\r" before
\* the "\n" goes with it
RECURSIVE SplitLines(_, _)
SplitLines(str, cur) ==
    IF str = << >> THEN (IF cur = << >> THEN << >> ELSE <<cur>>)
    ELSE IF Head(str) = "\n"
         THEN <<(IF cur # << >> /\ cur[Len(cur)] = "\r"
                 THEN SubSeq(cur, 1, Len(cur) - 1) ELSE cur)>>
              \o SplitLines(Tail(str), << >>)
         ELSE SplitLines(Tail(str), Append(cur, Head(str)))

Lines(str) == SplitLines(str, << >>)

\* whether s[p..] starts with w when letters are compared case-insensitively
MatchesAt(str, p, w) ==
    /\ p + Len(w) - 1 <= Len(str)
    /\ \A i \in 1..Len(w) : to_lowercase(str[p + i - 1]) = to_lowercase(w[i])

\* \b: a word character on exactly one side of the gap before index p
WordAt(str, p) == p >= 1 /\ p <= Len(str) /\ IsWordChar(str[p])
WordBoundary(str, p) == WordAt(str, p - 1) # WordAt(str, p)

RECURSIVE SkipSpace(_, _)
SkipSpace(str, p) ==
    IF p <= Len(str) /\ IsSpace(str[p]) THEN SkipSpace(str, p + 1) ELSE p

RECURSIVE SkipIdent(_, _)
SkipIdent(str, p) ==
    IF p <= Len(str) /\ IsIdentChar(str[p]) THEN SkipIdent(str, p + 1) ELSE p

-----------------------------------------------------------------------------
(* diagnostics.rs: analyze_variables *)

\* (DECLARE|SET|LOCAL) of decl_regex, in the order of the alternation
DeclKeywords == << <<"D","E","C","L","A","R","E">>,
                   <<"S","E","T">>,
                   <<"L","O","C","A","L">> >>

NoMatch == [ok |-> FALSE]

\* decl_regex tried at index p of a line:
\*   (?i)\b(DECLARE|SET|LOCAL)\s+([a-zA-Z_][a-zA-Z0-9_]*)
\* kw is capture 1, [ns, ne) the span of capture 2.  \s+ and the identifier
\* are greedy and share no character, so the match is unique.
DeclMatchAt(str, p) ==
    LET Try(k) ==
            LET q == p + Len(DeclKeywords[k])
                r == SkipSpace(str, q)
            IN  IF /\ WordBoundary(str, p)
                   /\ MatchesAt(str, p, DeclKeywords[k])
                   /\ r > q
                   /\ r <= Len(str)
                   /\ IsIdentStart(str[r])
                THEN [ok |-> TRUE, kw |-> SubSeq(str, p, q - 1),
                      ns |-> r, ne |-> SkipIdent(str, r)]
                ELSE NoMatch
        hits == {k \in 1..Len(DeclKeywords) : Try(k).ok}
    IN  IF hits = {} THEN NoMatch
        ELSE Try(CHOOSE k \in hits : \A j \in hits : k <= j)

\* captures_iter: leftmost matches, each search resuming where the last match ended
RECURSIVE ScanDecls(_, _)
ScanDecls(str, p) ==
    IF p > Len(str) THEN << >>
    ELSE LET m == DeclMatchAt(str, p)
         IN  IF m.ok THEN <<m>> \o ScanDecls(str, m.ne)
             ELSE ScanDecls(str, p + 1)

\* the Variable built for one match on line number ln (0-based)
Variable(str, ln, m) ==
    [name             |-> SubSeq(str, m.ns, m.ne - 1),
     declaration_type |-> Upper(m.kw),
     line             |-> ln + 1,
     column           |-> ByteOffset(str, m.ns) + 1,
     end_column       |-> ByteOffset(str, m.ne) + 1]

\* variables.entry(var_key).or_insert_with(Vec::new).push(variable)
EntryPush(map, v) ==
    LET key == Lower(v.name)
    IN  [k \in DOMAIN map \cup {key} |->
            IF k = key
            THEN (IF key \in DOMAIN map THEN Append(map[key], v) ELSE <<v>>)
            ELSE map[k]]

RECURSIVE EntryPushAll(_, _)
EntryPushAll(map, vs) ==
    IF vs = << >> THEN map ELSE EntryPushAll(EntryPush(map, Head(vs)), Tail(vs))

\* usage_regex tried at index p of the whole input: (?i)\b<name>\b
UsageMatchAt(str, p, name) ==
    /\ WordBoundary(str, p)
    /\ MatchesAt(str, p, name)
    /\ WordBoundary(str, p + Len(name))

\* usage_regex.find_iter(input) counted
RECURSIVE UsageCount(_, _, _)
UsageCount(str, p, name) ==
    IF p > Len(str) THEN 0
    ELSE IF UsageMatchAt(str, p, name)
         THEN 1 + UsageCount(str, p + Len(name), name)
         ELSE UsageCount(str, p + 1, name)

DeclarationCount(var_name, all) ==
    Cardinality({i \in 1..Len(all) : Lower(all[i].name) = Lower(var_name)})

\* is_variable_used with `>=` for `>`
is_variable_used_AtLeast(text, var_name, all) ==
    UsageCount(text, 1, var_name) >= DeclarationCount(var_name, all)

is_variable_used(text, var_name, all) ==
    UsageCount(text, 1, var_name) > DeclarationCount(var_name, all)

DuplicateDiagnostic(v) ==
    [line |-> v.line, column |-> v.column,
     end_line |-> v.line, end_column |-> v.end_column,
     message |-> <<"Variable '", v.name, "' has already been declared">>,
     severity |-> "Error", code |-> "duplicate-variable"]

UnusedDiagnostic(v) ==
    [line |-> v.line, column |-> v.column,
     end_line |-> v.line, end_column |-> v.end_column,
     message |-> <<"Unused variable '", v.name, "'">>,
     severity |-> "Warning", code |-> "unused-variable"]

\* DuplicatesOf with the first declaration flagged too (the `i > 0` test lost)
DuplicatesOf_FlagsFirst(declarations) ==
    IF Len(declarations) > 1
    THEN [i \in 1..Len(declarations) |-> DuplicateDiagnostic(declarations[i])]
    ELSE << >>

\* the diagnostics pushed for one entry of `variables`: every declaration but the first
DuplicatesOf(declarations) ==
    IF Len(declarations) > 1
    THEN [i \in 1..(Len(declarations) - 1) |-> DuplicateDiagnostic(declarations[i + 1])]
    ELSE << >>

\* one iteration of the extraction loop: every match of one line, left to right
ExtractLine ==
    /\ ~returned
    /\ line_idx < Len(input_lines)
    /\ LET str == input_lines[line_idx + 1]
           ms  == ScanDecls(str, 1)
           vs  == [i \in 1..Len(ms) |-> Variable(str, line_idx, ms[i])]
       IN  /\ variables' = EntryPushAll(variables, vs)
           /\ all_variables' = all_variables \o vs
    /\ line_idx' = line_idx + 1
    /\ UNCHANGED <<input, input_lines, visited, var_idx, diagnostics, returned, fvars>>

\* one iteration of `for (var_name, declarations) in &variables`: a HashMap
\* yields its entries in an order the program does not control
CheckDuplicates ==
    /\ ~returned
    /\ line_idx = Len(input_lines)
    /\ \E key \in DOMAIN variables \ visited :
          /\ diagnostics' = diagnostics \o DuplicatesOf(variables[key])
          /\ visited' = visited \cup {key}
    /\ UNCHANGED <<input, input_lines, line_idx, variables, all_variables, var_idx,
                   returned, fvars>>

\* one iteration of `for variable in &all_variables`
CheckUnused ==
    /\ ~returned
    /\ line_idx = Len(input_lines)
    /\ visited = DOMAIN variables
    /\ var_idx < Len(all_variables)
    /\ LET v == all_variables[var_idx + 1]
       IN  diagnostics' =
             IF is_variable_used(input, v.name, all_variables)
             THEN diagnostics
             ELSE Append(diagnostics, UnusedDiagnostic(v))
    /\ var_idx' = var_idx + 1
    /\ UNCHANGED <<input, input_lines, line_idx, variables, all_variables, visited,
                   returned, fvars>>

Return ==
    /\ ~returned
    /\ line_idx = Len(input_lines)
    /\ visited = DOMAIN variables
    /\ var_idx = Len(all_variables)
    /\ returned' = TRUE
    /\ UNCHANGED <<input, input_lines, line_idx, variables, all_variables, visited,
                   var_idx, diagnostics, fvars>>

\* the state on entry to analyze_variables(text)
DiagStart(text) ==
    /\ input = text
    /\ input_lines = Lines(text)
    /\ line_idx = 0
    /\ variables = [k \in {} |-> << >>]
    /\ all_variables = << >>
    /\ visited = {}
    /\ var_idx = 0
    /\ diagnostics = << >>
    /\ returned = FALSE

-----------------------------------------------------------------------------
(* sqlfmt.rs: format_sql.  The texts format_sql is run on here are ASCII, *)
(* so that a byte offset (str::len, find, split_at) is a character index. *)

KEYWORDS ==
    << <<"s","e","l","e","c","t">>,
       <<"i","n","s","e","r","t">>,
       <<"u","p","d","a","t","e">>,
       <<"d","e","l","e","t","e">>,
       <<"f","r","o","m">>,
       <<"w","h","e","r","e">>,
       <<"g","r","o","u","p">>,
       <<"b","y">>,
       <<"o","r","d","e","r">>,
       <<"h","a","v","i","n","g">>,
       <<"l","i","m","i","t">>,
       <<"o","f","f","s","e","t">>,
       <<"j","o","i","n">>,
       <<"i","n","n","e","r">>,
       <<"l","e","f","t">>,
       <<"r","i","g","h","t">>,
       <<"f","u","l","l">>,
       <<"o","u","t","e","r">>,
       <<"o","n">>,
       <<"a","s">>,
       <<"a","n","d">>,
       <<"o","r">>,
       <<"n","o","t">>,
       <<"n","u","l","l">>,
       <<"i","s">>,
       <<"i","n">>,
       <<"e","x","i","s","t","s">>,
       <<"c","a","s","e">>,
       <<"w","h","e","n">>,
       <<"t","h","e","n">>,
       <<"e","l","s","e">>,
       <<"e","n","d">>,
       <<"c","r","e","a","t","e">>,
       <<"t","a","b","l","e">>,
       <<"v","i","e","w">>,
       <<"f","u","n","c","t","i","o","n">>,
       <<"p","r","o","c","e","d","u","r","e">>,
       <<"i","f">>,
       <<"b","e","g","i","n">>,
       <<"c","o","m","m","i","t">>,
       <<"r","o","l","l","b","a","c","k">>,
       <<"u","n","i","o","n">>,
       <<"a","l","l">>,
       <<"d","i","s","t","i","n","c","t">>,
       <<"w","i","t","h">>,
       <<"o","v","e","r">>,
       <<"w","r","i","t","e">>,
       <<"p","a","r","t","i","t","i","o","n">>,
       <<"i","n","t","o">>,
       <<"v","a","l","u","e","s">>,
       <<"r","e","t","u","r","n">>,
       <<"r","e","t","u","r","n","s">>,
       <<"d","e","c","l","a","r","e">>,
       <<"s","e","t">>,
       <<"l","o","c","a","l">>,
       <<"r","e","a","l">>,
       <<"i","n","t","e","g","e","r">>,
       <<"f","u","n","c","t","i","o","n">>,
       <<"s","e","t">>,
       <<"w","r","i","t","e">>,
       <<"r","e","c","o","r","d">>,
       <<"d","o">>,
       <<"c","h","a","r">>,
       <<"a","b","s">>,
       <<"m","a","x">>,
       <<"m","i","n">>,
       <<"t","i","m","e","s","t","a","m","p">>,
       <<"u","p","d","a","t","e">> >>

\* kw_re tried at index p: (?i)\b(?:select|insert|...)\b
KeywordAt(str, p) ==
    \E k \in 1..Len(KEYWORDS) :
        /\ WordBoundary(str, p)
        /\ MatchesAt(str, p, KEYWORDS[k])
        /\ WordBoundary(str, p + Len(KEYWORDS[k]))

\* the length of the keyword matched at p: a match ends at a word boundary,
\* so every alternative that matches at p has the same length
KeywordLen(str, p) ==
    Len(KEYWORDS[CHOOSE k \in 1..Len(KEYWORDS) :
            /\ MatchesAt(str, p, KEYWORDS[k])
            /\ WordBoundary(str, p + Len(KEYWORDS[k]))])

\* kw_re.replace_all(&s, |caps| caps[0].to_ascii_uppercase())
RECURSIVE UppercaseKeywords(_, _)
UppercaseKeywords(str, p) ==
    IF p > Len(str) THEN << >>
    ELSE IF KeywordAt(str, p)
         THEN LET n == KeywordLen(str, p)
              IN  Upper(SubSeq(str, p, p + n - 1)) \o UppercaseKeywords(str, p + n)
         ELSE <<str[p]>> \o UppercaseKeywords(str, p + 1)

RECURSIVE trim_end(_)
trim_end(str) ==
    IF str # << >> /\ IsSpace(str[Len(str)])
    THEN trim_end(SubSeq(str, 1, Len(str) - 1)) ELSE str

trim_start(str) == SubSeq(str, SkipSpace(str, 1), Len(str))

trim(str) == trim_end(trim_start(str))

\* SpaceAfterComma with the pattern "," for ",\s*": the whitespace that
\* followed the comma stays
RECURSIVE SpaceAfterComma_KeepsSpaces(_, _)
SpaceAfterComma_KeepsSpaces(str, p) ==
    IF p > Len(str) THEN << >>
    ELSE IF str[p] = ","
         THEN <<",", " ">> \o SpaceAfterComma_KeepsSpaces(str, p + 1)
         ELSE <<str[p]>> \o SpaceAfterComma_KeepsSpaces(str, p + 1)

\* Regex::new(r",\s*").replace_all(&line, ", ")
RECURSIVE SpaceAfterComma(_, _)
SpaceAfterComma(str, p) ==
    IF p > Len(str) THEN << >>
    ELSE IF str[p] = ","
         THEN <<",", " ">> \o SpaceAfterComma(str, SkipSpace(str, p + 1))
         ELSE <<str[p]>> \o SpaceAfterComma(str, p + 1)

IsOperator(c) == c \in {"=", "<", ">", "!"}

RECURSIVE SkipOperators(_, _)
SkipOperators(str, p) ==
    IF p <= Len(str) /\ IsOperator(str[p]) THEN SkipOperators(str, p + 1) ELSE p

\* SpaceAroundOperators with the replacement " = " for " $1 "
RECURSIVE SpaceAroundOperators_Literal(_, _)
SpaceAroundOperators_Literal(str, p) ==
    IF p > Len(str) THEN << >>
    ELSE LET q == SkipSpace(str, p)
         IN  IF q <= Len(str) /\ IsOperator(str[q])
             THEN <<" ", "=", " ">>
                    \o SpaceAroundOperators_Literal(str, SkipSpace(str, SkipOperators(str, q)))
             ELSE <<str[p]>> \o SpaceAroundOperators_Literal(str, p + 1)

\* Regex::new(r"\s*([=<>!]+)\s*").replace_all(&line, " $1 "): the leftmost
\* match from p starts at p when only whitespace lies between p and the next
\* operator run; a search resumes where the last match ended
RECURSIVE SpaceAroundOperators(_, _)
SpaceAroundOperators(str, p) ==
    IF p > Len(str) THEN << >>
    ELSE LET q == SkipSpace(str, p)
         IN  IF q <= Len(str) /\ IsOperator(str[q])
             THEN LET r == SkipOperators(str, q)
                  IN  <<" ">> \o SubSeq(str, q, r - 1) \o <<" ">>
                        \o SpaceAroundOperators(str, SkipSpace(str, r))
             ELSE <<str[p]>> \o SpaceAroundOperators(str, p + 1)

\* the line as it reaches the wrapping step (lines 103-114)
Normalize(raw_line) ==
    SpaceAroundOperators(SpaceAfterComma(trim(raw_line), 1), 1)

clause_breaks ==
    << <<" ","S","E","L","E","C","T"," ">>,
       <<" ","F","R","O","M"," ">>,
       <<" ","W","H","E","R","E"," ">>,
       <<" ","G","R","O","U","P"," ","B","Y"," ">>,
       <<" ","O","R","D","E","R"," ","B","Y"," ">>,
       <<" ","H","A","V","I","N","G"," ">>,
       <<" ","L","I","M","I","T"," ">>,
       <<" ","O","F","F","S","E","T"," ">>,
       <<" ","J","O","I","N"," ">>,
       <<" ","I","N","N","E","R"," ","J","O","I","N"," ">>,
       <<" ","L","E","F","T"," ","J","O","I","N"," ">> >>

\* Find with rfind for find: the last occurrence
Find_Last(str, pat) ==
    LET hits == {p \in 0..(Len(str) - Len(pat)) :
                    SubSeq(str, p + 1, p + Len(pat)) = pat}
    IN  IF hits = {} THEN -1 ELSE CHOOSE p \in hits : \A q \in hits : p >= q

\* str::find: 0-based offset of the first occurrence, -1 for None
Find(str, pat) ==
    LET hits == {p \in 0..(Len(str) - Len(pat)) :
                    SubSeq(str, p + 1, p + Len(pat)) = pat}
    IN  IF hits = {} THEN -1 ELSE CHOOSE p \in hits : \A q \in hits : p <= q

\* str::rfind(','): 0-based offset of the last comma, -1 for None
RFindComma(str) ==
    LET hits == {p \in 0..(Len(str) - 1) : str[p + 1] = ","}
    IN  IF hits = {} THEN -1 ELSE CHOOSE p \in hits : \A q \in hits : p >= q

\* the markers a split may be made at: found at an offset strictly between
\* 0 and the width
MarkerHits(str, width) ==
    {k \in 1..Len(clause_breaks) :
        Find(str, clause_breaks[k]) > 0 /\ Find(str, clause_breaks[k]) < width}

\* lines 136-151: the rule an iteration of the wrap loop takes
SplitRule(str, width) ==
    IF MarkerHits(str, width) # {} THEN "marker"
    ELSE IF RFindComma(SubSeq(str, 1, width)) >= 0 THEN "comma"
    ELSE "cut"

\* the first marker, in the order of clause_breaks, that qualifies
FirstMarker(str, width) ==
    CHOOSE k \in MarkerHits(str, width) : \A j \in MarkerHits(str, width) : k <= j

\* CommaSplit with Some(pos) for Some(pos + 1): the split before the comma
CommaSplit_BeforeComma(str, width) == RFindComma(SubSeq(str, 1, width))

\* line 148: Some(pos + 1)
CommaSplit(str, width) == RFindComma(SubSeq(str, 1, width)) + 1

\* lines 136-151: idx
SplitIndex(str, width) ==
    IF SplitRule(str, width) = "marker"
    THEN Find(str, clause_breaks[FirstMarker(str, width)])
    ELSE IF SplitRule(str, width) = "comma" THEN CommaSplit(str, width)
    ELSE width

Spaces(n) == [i \in 1..n |-> " "]

\* lines 153-161: the segment an iteration appends to `out`
Segment(head, is_first, indent_width) ==
    IF is_first THEN trim_end(head) \o <<"\n">>
    ELSE Spaces(indent_width) \o trim(head) \o <<"\n">>

StartsWith(str, prefix) ==
    Len(str) >= Len(prefix) /\ SubSeq(str, 1, Len(prefix)) = prefix

Contains(str, c) == \E i \in 1..Len(str) : str[i] = c

\* lines 183-187: decrease indent for END or closing paren
DecreaseForClose(trimmed, lvl) ==
    IF StartsWith(trimmed, <<"E","N","D">>) \/ StartsWith(trimmed, <<")">>)
    THEN (IF lvl > 0 THEN lvl - 1 ELSE lvl)
    ELSE lvl

\* IncreaseForOpen with the CASE test lost
IncreaseForOpen_NoCase(trimmed, formatted, lvl) ==
    IF \/ StartsWith(trimmed, <<"T","H","E","N">>)
       \/ StartsWith(trimmed, <<"B","E","G","I","N">>)
       \/ Contains(formatted, "(")
    THEN lvl + 1
    ELSE lvl

\* lines 193-199: increase indent for THEN, BEGIN, CASE, opening parenthesis
IncreaseForOpen(trimmed, formatted, lvl) ==
    IF \/ StartsWith(trimmed, <<"T","H","E","N">>)
       \/ StartsWith(trimmed, <<"B","E","G","I","N">>)
       \/ StartsWith(trimmed, <<"C","A","S","E">>)
       \/ Contains(formatted, "(")
    THEN lvl + 1
    ELSE lvl

\* usize::saturating_sub(1)
SaturatingDecrement(n) == IF n >= 1 THEN n - 1 ELSE 0

\* lines 201-205: reduce for single-line END
ReduceForEnd(trimmed, lvl) ==
    IF StartsWith(trimmed, <<"E","N","D"," ">>) \/ trimmed = <<"E","N","D">>
    THEN (IF lvl > 0 THEN SaturatingDecrement(lvl) ELSE lvl)
    ELSE lvl

\* lines 88-94: the keyword normaliser, and the start of the per-line loop
KeywordNormalize ==
    /\ fpc = "start"
    /\ s' = IF opts.uppercase_keywords THEN UppercaseKeywords(src, 1) ELSE src
    /\ raw_lines' = Lines(s')
    /\ fpc' = IF raw_lines' = << >> THEN "indent" ELSE "line"
    /\ UNCHANGED <<src, opts, raw_idx, line, norms, rest, out, first, rules, lines,
                   ind_idx, level, levels, emitted, indented, result, dvars>>

\* lines 103-134: trim, comma step, operator step; a line longer than the
\* width enters the wrap loop
NormalizeLine ==
    /\ fpc = "line"
    /\ line' = Normalize(raw_lines[raw_idx + 1])
    /\ norms' = Append(norms, line')
    /\ IF Len(line') > opts.line_width
       THEN /\ out' = << >>
            /\ rest' = line'
            /\ first' = TRUE
            /\ fpc' = "wrap"
       ELSE /\ UNCHANGED <<out, rest, first>>
            /\ fpc' = "push"
    /\ rules' = << >>
    /\ UNCHANGED <<src, opts, s, raw_lines, raw_idx, lines, ind_idx, level, levels,
                   emitted, indented, result, dvars>>

\* lines 135-163: one iteration of the wrap loop
WrapIter ==
    /\ fpc = "wrap"
    /\ Len(rest) > opts.line_width
    /\ LET idx  == SplitIndex(rest, opts.line_width)
           head == SubSeq(rest, 1, idx)
           tail == SubSeq(rest, idx + 1, Len(rest))
       IN  /\ out' = out \o Segment(head, first, opts.indent_width)
           /\ rest' = trim(tail)
    /\ first' = FALSE
    /\ rules' = Append(rules, SplitRule(rest, opts.line_width))
    /\ UNCHANGED <<fpc, src, opts, s, raw_lines, raw_idx, line, norms, lines, ind_idx,
                   level, levels, emitted, indented, result, dvars>>

\* lines 164-170: the loop has ended; the tail is appended
WrapEnd ==
    /\ fpc = "wrap"
    /\ Len(rest) <= opts.line_width
    /\ out' = IF rest # << >>
              THEN out \o (IF ~first THEN Spaces(opts.indent_width) ELSE << >>) \o rest
              ELSE out
    /\ line' = out'
    /\ fpc' = "push"
    /\ UNCHANGED <<src, opts, s, raw_lines, raw_idx, norms, rest, first, rules, lines,
                   ind_idx, level, levels, emitted, indented, result, dvars>>

\* line 173: lines.push(line)
PushLine ==
    /\ fpc = "push"
    /\ lines' = Append(lines, line)
    /\ raw_idx' = raw_idx + 1
    /\ fpc' = IF raw_idx' = Len(raw_lines) THEN "indent" ELSE "line"
    /\ UNCHANGED <<src, opts, s, raw_lines, line, norms, rest, out, first, rules,
                   ind_idx, level, levels, emitted, indented, result, dvars>>

\* lines 179-206: one iteration of the indentation loop
IndentLine ==
    /\ fpc = "indent"
    /\ ind_idx < Len(lines)
    /\ LET cur       == lines[ind_idx + 1]
           trimmed   == trim_start(Upper(cur))
           at_emit   == DecreaseForClose(trimmed, level)
           formatted == Spaces(at_emit * opts.indent_width) \o trim(cur)
           at_open   == IncreaseForOpen(trimmed, formatted, at_emit)
           at_exit   == ReduceForEnd(trimmed, at_open)
       IN  /\ indented' = indented \o formatted \o <<"\n">>
           /\ emitted' = Append(emitted, formatted)
           /\ level' = at_exit
           /\ levels' = Append(levels, [entry |-> level, emit |-> at_emit,
                                        open |-> at_open, exit |-> at_exit])
    /\ ind_idx' = ind_idx + 1
    /\ UNCHANGED <<fpc, src, opts, s, raw_lines, raw_idx, line, norms, rest, out, first,
                   rules, lines, result, dvars>>

\* line 208: Ok(indented.trim_end().to_string())
Finish ==
    /\ fpc = "indent"
    /\ ind_idx = Len(lines)
    /\ result' = trim_end(indented)
    /\ fpc' = "done"
    /\ UNCHANGED <<src, opts, s, raw_lines, raw_idx, line, norms, rest, out, first,
                   rules, lines, ind_idx, level, levels, emitted, indented, dvars>>

\* the defaults of the command line (main.rs)
DefaultOptions == [line_width |-> 88, indent_width |-> 2, uppercase_keywords |-> TRUE]

\* the state on entry to format_sql(text, o)
FmtStart(text, o) ==
    /\ fpc = "start"
    /\ src = text
    /\ opts = o
    /\ s = << >>
    /\ raw_lines = << >>
    /\ raw_idx = 0
    /\ line = << >>
    /\ norms = << >>
    /\ rest = << >>
    /\ out = << >>
    /\ first = TRUE
    /\ rules = << >>
    /\ lines = << >>
    /\ ind_idx = 0
    /\ level = 0
    /\ levels = << >>
    /\ emitted = << >>
    /\ indented = << >>
    /\ result = << >>

-----------------------------------------------------------------------------
(* Specifications *)

\* Inputs of analyze_variables: up to MaxItems pieces of text, concatenated.
\* A piece that starts with a space or a line break begins a new word; "x"
\* and the non-ASCII letter continue the word before them.
MaxItems == 4

DiagItems ==
    { <<"\n","S","E","T"," ","x">>,
      <<" ","l","o","c","a","l"," ","X">>,
      <<" ","D","E","C","L","A","R","E"," ","y">>,
      <<" ","x">>,
      <<"x">>,
      <<EAcute>> }

DiagInputs ==
    { Flatten(t) : t \in UNION { [1..n -> DiagItems] : n \in 0..MaxItems } }

InitDiag ==
    /\ \E text \in DiagInputs : DiagStart(text)
    /\ FmtStart(<< >>, DefaultOptions)

NextDiag == ExtractLine \/ CheckDuplicates \/ CheckUnused \/ Return

SpecDiag == InitDiag /\ [][NextDiag]_vars


\* Inputs of format_sql, in four families, each with the Options it is run under.
\* (1) one line of up to MaxChars characters, around commas and operators
MaxChars == 4
CharAlphabet == {"a", " ", ",", "=", "<"}
CharInputs == UNION { [1..n -> CharAlphabet] : n \in 0..MaxChars }
CharOptions == DefaultOptions

\* (2) one line of up to MaxPieces pieces, longer than a narrow width: the
\*     three split rules of the wrapper
MaxPieces == 5
NarrowPieces == { <<"a">>, <<",">>, <<" ","F","R","O","M"," ">> }
NarrowInputs ==
    { Flatten(t) : t \in UNION { [1..n -> NarrowPieces] : n \in 0..MaxPieces } }
NarrowOptions == [line_width |-> 3, indent_width |-> 4, uppercase_keywords |-> TRUE]

\* (3) one line of up to MaxPieces pieces with two clause markers
MarkerPieces == { <<"a">>,
                  <<" ","S","E","L","E","C","T"," ">>,
                  <<" ","F","R","O","M"," ">> }
MarkerInputs ==
    { Flatten(t) : t \in UNION { [1..n -> MarkerPieces] : n \in 0..MaxPieces } }
MarkerOptions == [line_width |-> 16, indent_width |-> 2, uppercase_keywords |-> TRUE]

\* (4) up to MaxLines lines, around the indentation depth
MaxLines == 4
LineChoices == { <<"(">>, <<")">>,
                 <<"c","a","s","e"," ","a">>,
                 <<"E","N","D">>,
                 <<"a"," ","F","R","O","M"," ","a">> }
RECURSIVE JoinLines(_)
JoinLines(ls) ==
    IF ls = << >> THEN << >> ELSE Head(ls) \o <<"\n">> \o JoinLines(Tail(ls))
LineInputs ==
    { JoinLines(t) : t \in UNION { [1..n -> LineChoices] : n \in 0..MaxLines } }
LineOptions == [line_width |-> 6, indent_width |-> 2, uppercase_keywords |-> FALSE]

FmtRuns == (CharInputs \X {CharOptions}) \cup (NarrowInputs \X {NarrowOptions})
             \cup (MarkerInputs \X {MarkerOptions}) \cup (LineInputs \X {LineOptions})

Init ==
    /\ \E run \in FmtRuns : FmtStart(run[1], run[2])
    /\ DiagStart(<< >>)

Next == KeywordNormalize \/ NormalizeLine \/ WrapIter \/ WrapEnd \/ PushLine
          \/ IndentLine \/ Finish

Spec == Init /\ [][Next]_vars

-----------------------------------------------------------------------------
(* Properties of analyze_variables *)

Pos(x) == <<x.line, x.column>>
Positions(xs) == [i \in 1..Len(xs) |-> Pos(xs[i])]

\* the names the extractor found, compared case-insensitively
DeclaredNames == {Lower(all_variables[i].name) : i \in 1..Len(all_variables)}

\* the declarations of one name, in extraction order
DeclsOf(n) == SelectSeq(all_variables, LAMBDA v : Lower(v.name) = n)

\* the diagnostics of one code about one name, in list order
DiagsOf(code, n) ==
    SelectSeq(diagnostics, LAMBDA d : d.code = code /\ Lower(d.message[2]) = n)

\* whole-word occurrences of a name in the input: the indices at which a
\* maximal run of word characters begins that spells the name
Occurrences(n) ==
    {p \in 1..Len(input) :
        /\ WordAt(input, p) /\ ~WordAt(input, p - 1)
        /\ p + Len(n) - 1 <= Len(input)
        /\ Lower(SubSeq(input, p, p + Len(n) - 1)) = n
        /\ ~WordAt(input, p + Len(n))}

\* index of the first character of line ln (1-based) of the input
RECURSIVE LineStart(_, _)
LineStart(ln, p) ==
    IF ln = 1 THEN p
    ELSE LineStart(IF input[p] = "\n" THEN ln - 1 ELSE ln, p + 1)

\* byte offset in the input of the identifier of a declaration
DeclOffset(v) == ByteOffset(input, LineStart(v.line, 1)) + v.column - 1

\* whole-word occurrences of a name that are not the identifier of one of
\* its declarations
Elsewhere(n) ==
    {p \in Occurrences(n) :
        \A i \in 1..Len(all_variables) :
            ByteOffset(input, p) # DeclOffset(all_variables[i])}

\* C1: a name the extractor finds declared k times gets exactly k-1
\* duplicate-variable diagnostics, all of severity Error, located at its
\* declarations 2..k in extraction order; its first declaration is never
\* flagged as a duplicate.
C1_DuplicateCount ==
    returned =>
        \A n \in DeclaredNames :
            LET ds == DeclsOf(n)
                dd == DiagsOf("duplicate-variable", n)
            IN  /\ Len(dd) = Len(ds) - 1
                /\ \A i \in 1..Len(dd) :
                      /\ dd[i].severity = "Error"
                      /\ Pos(dd[i]) = Pos(ds[i + 1])
                      /\ dd[i].end_line = ds[i + 1].line
                /\ \A j \in 1..Len(diagnostics) :
                      diagnostics[j].code = "duplicate-variable"
                          => Pos(diagnostics[j]) # Pos(ds[1])

\* a name declared three times under two spellings, with a second duplicated name
C1_Witness ==
    /\ returned
    /\ \E n \in DeclaredNames :
          /\ Len(DeclsOf(n)) >= 3
          /\ \E i, j \in 1..Len(DeclsOf(n)) : DeclsOf(n)[i].name # DeclsOf(n)[j].name
          /\ Len(DiagsOf("duplicate-variable", n)) = Len(DeclsOf(n)) - 1

\* C2: a name declared exactly once that occurs as a whole word nowhere else
\* in the input gets exactly one unused-variable Warning, at its declaration;
\* a name declared exactly once that occurs as a whole word elsewhere gets none.
C2_UsageLaw ==
    returned =>
        \A n \in DeclaredNames :
            Len(DeclsOf(n)) = 1 =>
                LET uu == DiagsOf("unused-variable", n)
                IN  /\ Elsewhere(n) = {} =>
                          /\ Len(uu) = 1
                          /\ uu[1].severity = "Warning"
                          /\ Pos(uu[1]) = Pos(DeclsOf(n)[1])
                    /\ Elsewhere(n) # {} => uu = << >>

\* whether declaration i is the first of its name
IsFirstDecl(i) ==
    \A j \in 1..(i - 1) : Lower(all_variables[j].name) # Lower(all_variables[i].name)

\* the positions of the declarations after the first of each name, the names
\* taken in the order of their first declarations
RECURSIVE FirstSeenDuplicates(_)
FirstSeenDuplicates(i) ==
    IF i > Len(all_variables) THEN << >>
    ELSE (IF IsFirstDecl(i)
          THEN Tail(Positions(DeclsOf(Lower(all_variables[i].name))))
          ELSE << >>) \o FirstSeenDuplicates(i + 1)

IndexOfDecl(pos) == CHOOSE i \in 1..Len(all_variables) : Pos(all_variables[i]) = pos

\* C3: the list holds the duplicate-variable diagnostics first, grouped by
\* name with the names in first-declaration order and in extraction order
\* within a name, then the unused-variable diagnostics in extraction order.
C3_Order ==
    returned =>
        LET dups   == SelectSeq(diagnostics, LAMBDA d : d.code = "duplicate-variable")
            unused == SelectSeq(diagnostics, LAMBDA d : d.code = "unused-variable")
        IN  /\ diagnostics = dups \o unused
            /\ Positions(dups) = FirstSeenDuplicates(1)
            /\ \A i, j \in 1..Len(unused) :
                  i < j => IndexOfDecl(Pos(unused[i])) < IndexOfDecl(Pos(unused[j]))

\* C4 as claimed: a name declared twice and referenced once elsewhere is
\* classified unused, with an unused-variable diagnostic at each declaration.
C4_TwiceDeclaredOnceReferencedUnused ==
    returned =>
        \A n \in DeclaredNames :
            (Len(DeclsOf(n)) = 2 /\ Cardinality(Elsewhere(n)) = 1) =>
                Positions(DiagsOf("unused-variable", n)) = Positions(DeclsOf(n))

\* C4 amended: a name declared twice is classified by its whole-word
\* occurrences in the whole input, declarations included: with three or more
\* (its two declarations and one reference elsewhere) it is used and gets no
\* unused-variable diagnostic; with at most two it is unused and each of its
\* declarations gets one.
C4_TwiceDeclaredByOccurrences ==
    returned =>
        \A n \in DeclaredNames :
            Len(DeclsOf(n)) = 2 =>
                IF Cardinality(Occurrences(n)) >= 3
                THEN DiagsOf("unused-variable", n) = << >>
                ELSE Positions(DiagsOf("unused-variable", n)) = Positions(DeclsOf(n))

\* a name declared twice and referenced exactly once elsewhere, reported used
C4_Witness ==
    /\ returned
    /\ \E n \in DeclaredNames :
          /\ Len(DeclsOf(n)) = 2
          /\ Cardinality(Elsewhere(n)) = 1
          /\ Cardinality(Occurrences(n)) = 3
          /\ DiagsOf("unused-variable", n) = << >>

-----------------------------------------------------------------------------
(* Properties of format_sql *)

\* the maximal runs of operator characters of a line, as <<first, last>> indices
OperatorRuns(str) ==
    {r \in (1..Len(str)) \X (1..Len(str)) :
        /\ r[1] <= r[2]
        /\ \A i \in r[1]..r[2] : IsOperator(str[i])
        /\ (r[1] = 1 \/ ~IsOperator(str[r[1] - 1]))
        /\ (r[2] = Len(str) \/ ~IsOperator(str[r[2] + 1]))}

\* one space right after index p, and no further whitespace after it
OneSpaceAfter(str, p) ==
    /\ p < Len(str)
    /\ str[p + 1] = " "
    /\ (p + 1 = Len(str) \/ ~IsSpace(str[p + 2]))

\* one space right before index p, and no further whitespace before it
OneSpaceBefore(str, p) ==
    /\ p > 1
    /\ str[p - 1] = " "
    /\ (p = 2 \/ ~IsSpace(str[p - 2]))

\* C5: in every normalized line, every maximal run of characters from
\* {=,<,>,!} has exactly one space before it and exactly one space after it.
C5_OperatorPadding ==
    \A i \in 1..Len(norms) :
        \A r \in OperatorRuns(norms[i]) :
            OneSpaceBefore(norms[i], r[1]) /\ OneSpaceAfter(norms[i], r[2])

\* C6 as claimed: in every normalized line, every comma is followed by
\* exactly one space and preceded by no whitespace.
C6_CommaSpacingNoneBefore ==
    \A i \in 1..Len(norms) :
        \A p \in 1..Len(norms[i]) :
            norms[i][p] = "," =>
                /\ OneSpaceAfter(norms[i], p)
                /\ (p = 1 \/ ~IsSpace(norms[i][p - 1]))

\* C6 amended: in every normalized line, after the comma step and the
\* operator step, every comma is followed by exactly one space.
C6_CommaSpacingAfter ==
    \A i \in 1..Len(norms) :
        \A p \in 1..Len(norms[i]) :
            norms[i][p] = "," => OneSpaceAfter(norms[i], p)

\* a raw line in which a comma has whitespace before it and none after it,
\* normalized: the whitespace before the comma is still there
C6_Witness ==
    \E i \in 1..Len(norms) :
        /\ \E p \in 3..(Len(raw_lines[i]) - 1) :
              /\ raw_lines[i][p] = ","
              /\ IsSpace(raw_lines[i][p - 1])
              /\ IsWordChar(raw_lines[i][p - 2])
              /\ IsWordChar(raw_lines[i][p + 1])
        /\ \E p \in 2..Len(norms[i]) :
              /\ norms[i][p] = ","
              /\ IsSpace(norms[i][p - 1])
              /\ OneSpaceAfter(norms[i], p)

FromMarker == <<" ","F","R","O","M"," ">>
SelectMarker == <<" ","S","E","L","E","C","T"," ">>

\* the line holds ' FROM ' at an offset strictly between 0 and the width
FromInRange(str, width) ==
    \E off \in 1..(width - 1) :
        /\ off + Len(FromMarker) <= Len(str)
        /\ SubSeq(str, off + 1, off + Len(FromMarker)) = FromMarker

\* the line holds ' SELECT ' at an offset strictly between 0 and the width
SelectInRange(str, width) ==
    \E off \in 1..(width - 1) :
        /\ off + Len(SelectMarker) <= Len(str)
        /\ SubSeq(str, off + 1, off + Len(SelectMarker)) = SelectMarker

\* the number of spaces a text starts with
LeadingSpaces(str) ==
    LET others == {p \in 1..Len(str) : str[p] # " "}
    IN  IF others = {} THEN Len(str)
        ELSE (CHOOSE p \in others : \A q \in others : p <= q) - 1

\* a physical line made of exactly n spaces and a text that begins with FROM
IsFromContinuation(seg, n) ==
    /\ LeadingSpaces(seg) = n
    /\ StartsWith(SubSeq(seg, n + 1, Len(seg)), <<"F","R","O","M">>)

\* some physical line of a text after its first is such a continuation
HasFromContinuation(text, n) ==
    \E k \in 2..Len(Lines(text)) : IsFromContinuation(Lines(text)[k], n)

\* C7 as claimed: every normalized line longer than line_width that holds
\* ' FROM ' at an offset strictly between 0 and line_width is wrapped with a
\* continuation segment that begins with FROM behind exactly indent_width
\* spaces, in the wrapped line and in the final output.
C7_SplitBeforeFrom ==
    fpc = "done" =>
        \A i \in 1..Len(norms) :
            (Len(norms[i]) > opts.line_width /\ FromInRange(norms[i], opts.line_width))
            => /\ HasFromContinuation(lines[i], opts.indent_width)
               /\ HasFromContinuation(emitted[i], opts.indent_width)
               /\ \E k \in 1..Len(Lines(result)) :
                     IsFromContinuation(Lines(result)[k], opts.indent_width)

\* C7 amended: when moreover the line holds no ' SELECT ' at an offset
\* strictly between 0 and line_width and line_width is at least 4, the first
\* split is immediately before the first ' FROM ': the first segment is the
\* text before it and the second segment begins with FROM behind exactly
\* indent_width spaces, in the wrapped line and in the final output.
C7_SplitBeforeFromUnlessSelect ==
    fpc = "done" =>
        \A i \in 1..Len(norms) :
            (/\ Len(norms[i]) > opts.line_width
             /\ FromInRange(norms[i], opts.line_width)
             /\ ~SelectInRange(norms[i], opts.line_width)
             /\ opts.line_width >= 4)
            => /\ Len(Lines(lines[i])) >= 2
               /\ Lines(lines[i])[1] =
                     trim_end(SubSeq(norms[i], 1, Find(norms[i], FromMarker)))
               /\ IsFromContinuation(Lines(lines[i])[2], opts.indent_width)
               /\ IsFromContinuation(Lines(emitted[i])[2], opts.indent_width)
               /\ \E k \in 1..Len(Lines(result)) :
                     IsFromContinuation(Lines(result)[k], opts.indent_width)

\* a line wrapped before FROM at depth 1, and a line whose text after the
\* split before FROM was itself too long
C7_Witness ==
    /\ fpc = "done"
    /\ \E i \in 1..Len(norms) :
          /\ Len(norms[i]) > opts.line_width
          /\ FromInRange(norms[i], opts.line_width)
          /\ ~SelectInRange(norms[i], opts.line_width)
          /\ opts.line_width >= 4
          /\ IsFromContinuation(Lines(emitted[i])[2], opts.indent_width)
          /\ \/ levels[i].emit > 0
             \/ Len(Lines(lines[i])) >= 3

\* what the indentation loop classifies a line by
LeadingToken(text) == trim_start(Upper(text))
StartsClose(text) ==
    \/ StartsWith(LeadingToken(text), <<"E","N","D">>)
    \/ StartsWith(LeadingToken(text), <<")">>)
StartsCase(text) == StartsWith(LeadingToken(text), <<"C","A","S","E">>)
StartsEnd(text) == StartsWith(LeadingToken(text), <<"E","N","D">>)
\* a line that holds no '(' and starts with none of THEN, BEGIN, CASE, END, ')'
Quiet(text) ==
    /\ ~Contains(text, "(")
    /\ ~StartsWith(LeadingToken(text), <<"T","H","E","N">>)
    /\ ~StartsWith(LeadingToken(text), <<"B","E","G","I","N">>)
    /\ ~StartsCase(text)
    /\ ~StartsClose(text)

\* C8: from any depth d, a line starting with CASE is emitted with
\* d*indent_width leading spaces, the line after it (not starting with END or
\* ')') with (d+1)*indent_width, and the next line starting with END, when the
\* lines in between are quiet, with d*indent_width; the depth is never negative.
C8_CaseEndIndentation ==
    /\ level >= 0
    /\ \A i \in 1..Len(levels) :
          /\ levels[i].emit >= 0 /\ levels[i].open >= 0 /\ levels[i].exit >= 0
          /\ StartsCase(lines[i]) =>
                LET d == levels[i].entry
                IN  /\ LeadingSpaces(emitted[i]) = d * opts.indent_width
                    /\ (i + 1 <= Len(emitted) /\ ~StartsClose(lines[i + 1]))
                          => LeadingSpaces(emitted[i + 1]) = (d + 1) * opts.indent_width
                    /\ \A j \in (i + 1)..Len(emitted) :
                          (/\ StartsEnd(lines[j])
                           /\ \A m \in (i + 1)..(j - 1) : Quiet(lines[m]))
                          => LeadingSpaces(emitted[j]) = d * opts.indent_width

\* CASE at depth 1, a quiet line one unit deeper, END back at depth 1
C8_Witness ==
    \E i \in 1..Len(levels) :
        /\ StartsCase(lines[i])
        /\ levels[i].entry = 1
        /\ i + 2 <= Len(emitted)
        /\ Quiet(lines[i + 1])
        /\ StartsEnd(lines[i + 2])
        /\ LeadingSpaces(emitted[i + 1]) = 2 * opts.indent_width
        /\ LeadingSpaces(emitted[i + 2]) = opts.indent_width

\* C9: the wrap loop terminates: every iteration, whichever split rule it
\* takes, strictly shortens the remaining text and stays in the loop; the
\* loop is left only with a tail of at most line_width; and the iterations
\* taken plus the length of the remaining text never exceed the length of
\* the normalized line, so a line of length n leaves the loop within n
\* iterations.
C9_WrapTerminates ==
    /\ [][(fpc = "wrap" /\ Len(rest) > opts.line_width)
            => (Len(rest') < Len(rest) /\ fpc' = "wrap")]_vars
    /\ [][(fpc = "wrap" /\ fpc' # "wrap") => Len(rest') <= opts.line_width]_vars
    /\ [](fpc = "wrap" => Len(rules) + Len(rest) <= Len(norms[Len(norms)]))

\* a line whose wrapping took each of the three split rules
C9_Witness ==
    /\ fpc = "push"
    /\ \E i, j, k \in 1..Len(rules) :
          rules[i] = "marker" /\ rules[j] = "comma" /\ rules[k] = "cut"

NonSpace(text) == SelectSeq(text, LAMBDA c : ~IsSpace(c))

\* C10: the non-whitespace characters of the output are those of the input,
\* in order: exactly when uppercase_keywords is false, up to ASCII letter
\* case when it is true.
C10_ContentPreserved ==
    fpc = "done" =>
        IF opts.uppercase_keywords
        THEN Lower(NonSpace(result)) = Lower(NonSpace(src))
        ELSE NonSpace(result) = NonSpace(src)

\* an output that differs from its input after a hard cut inside a token
C10_Witness ==
    /\ fpc = "done"
    /\ result # src
    /\ \E k \in 1..Len(rules) : rules[k] = "cut"
    /\ \E k \in 1..Len(rules) : rules[k] = "comma"
    /\ Lower(NonSpace(result)) = Lower(NonSpace(src))

=============================================================================
